---- MODULE Spec2Model ----
(***************************************************************************)
(* GPA calculator (src/streamlit test/app.py).                             *)
(*                                                                         *)
(* The program computes with Python floats (binary floating point, round   *)
(* to nearest, ties to even) and Python ints.  A float is modelled as a    *)
(* pair <<m, e>> standing for m * 2^e, with m odd (or <<0, 0>> for zero)   *)
(* and |m| < 2^Precision; every float operation computes the exact result  *)
(* and rounds it to Precision significant bits, as IEEE-754 does with 53.  *)
(* None is the empty tuple.                                                *)
(***************************************************************************)
EXTENDS Integers, Sequences, FiniteSets, TLC

VARIABLES op, args, ret, input_error

vars == <<op, args, ret, input_error>>

\* Significant bits of a float in the model (53 in CPython).
Precision == 10

\* Longest list handed to calculate_gpa.
MaxLen == 3

\* Most classes entered with a known grade.
MaxKnown == 2

None == <<>>

Zero == <<0, 0>>

Min2(a, b) == IF a < b THEN a ELSE b

RECURSIVE Norm(_, _)
\* The canonical pair of m * 2^e: trailing zero bits of m moved into e.
Norm(m, e) ==
    IF m = 0 THEN Zero
    ELSE IF m % 2 = 0 THEN Norm(m \div 2, e + 1)
    ELSE <<m, e>>

RECURSIVE RoundPos(_, _, _)
\* (n / d) * 2^e for n >= 0, d > 0, rounded to Precision bits, ties to even.
RoundPos(n, d, e) ==
    IF n = 0 THEN Zero
    ELSE IF n >= d * 2^Precision THEN RoundPos(n, 2 * d, e + 1)
    ELSE IF n < d * 2^(Precision - 1) THEN RoundPos(2 * n, d, e - 1)
    ELSE LET q == n \div d
             r == n % d
             m == IF 2 * r > d \/ (2 * r = d /\ q % 2 = 1) THEN q + 1 ELSE q
         IN  Norm(m, e)

FNeg(a) == <<-a[1], a[2]>>

\* The float nearest to (n / d) * 2^e, d > 0.
FRound(n, d, e) == IF n < 0 THEN FNeg(RoundPos(-n, d, e)) ELSE RoundPos(n, d, e)

\* A Python int as a float operand.
FromInt(i) == FRound(i, 1, 0)

\* The float a decimal literal or a number_input value n/d denotes.
FromDecimal(n, d) == FRound(n, d, 0)

\* The integer a.m * 2^(a.e - e), for e <= a.e.
Aligned(a, e) == IF a[1] = 0 THEN 0 ELSE a[1] * 2^(a[2] - e)

CommonExp(a, b) ==
    IF a[1] = 0 THEN b[2] ELSE IF b[1] = 0 THEN a[2] ELSE Min2(a[2], b[2])

FAdd(a, b) ==
    LET e == CommonExp(a, b) IN FRound(Aligned(a, e) + Aligned(b, e), 1, e)

FSub(a, b) == FAdd(a, FNeg(b))

FMul(a, b) == FRound(a[1] * b[1], 1, a[2] + b[2])

\* a / b for b # 0 (Python raises ZeroDivisionError otherwise).
FDiv(a, b) ==
    IF b[1] < 0 THEN FRound(-a[1], -b[1], a[2] - b[2])
    ELSE FRound(a[1], b[1], a[2] - b[2])

FLt(a, b) == LET e == CommonExp(a, b) IN Aligned(a, e) < Aligned(b, e)

\* sum(...) of floats: the int 0, then the items added from left to right,
\* each addition rounded.
RECURSIVE Sum(_)
Sum(s) == IF s = <<>> THEN Zero ELSE FAdd(Sum(SubSeq(s, 1, Len(s) - 1)), s[Len(s)])

\* What a call leaves behind: the value it returned or computed (None when
\* there is none) and the streamlit message it showed ("" when none).
Outcome(v, m) == [val |-> v, st |-> m]

\* ------------------------------------------------------------------------
\* get_grade_point

grade_map ==
    ("A+" :> FromDecimal(40, 10)) @@ ("A" :> FromDecimal(40, 10)) @@
    ("A-" :> FromDecimal(37, 10)) @@
    ("B+" :> FromDecimal(33, 10)) @@ ("B" :> FromDecimal(30, 10)) @@
    ("B-" :> FromDecimal(27, 10)) @@
    ("C+" :> FromDecimal(23, 10)) @@ ("C" :> FromDecimal(20, 10)) @@
    ("C-" :> FromDecimal(17, 10)) @@
    ("D+" :> FromDecimal(13, 10)) @@ ("D" :> FromDecimal(10, 10)) @@
    ("D-" :> FromDecimal(7, 10)) @@
    ("F" :> FromDecimal(0, 10)) @@
    ("Pass" :> None) @@
    ("Fail" :> FromDecimal(0, 10))

\* Mutation: the lookup without its default.
get_grade_point_no_default(grade) ==
    IF grade \in DOMAIN grade_map THEN grade_map[grade] ELSE None

get_grade_point(grade) ==
    IF grade \in DOMAIN grade_map THEN grade_map[grade] ELSE FromDecimal(0, 10)

\* ------------------------------------------------------------------------
\* calculate_gpa

\* zip(a, b): pairs up to the shorter of the two lists.
Zip(a, b) == [i \in 1..Min2(Len(a), Len(b)) |-> <<a[i], b[i]>>]

IsCounted(pair) == pair[2] # None

\* Mutation: the credits of excluded classes stay in the denominator.
calculate_gpa_counts_excluded(credits_list, grade_points_list) ==
    LET z == Zip(credits_list, grade_points_list)
        counted == SelectSeq(z, IsCounted)
        total_grade_points ==
            Sum([i \in 1..Len(counted) |-> FMul(counted[i][1], counted[i][2])])
        total_credits == Sum([i \in 1..Len(z) |-> z[i][1]])
    IN  IF total_credits = Zero THEN Zero
        ELSE FDiv(total_grade_points, total_credits)

\* Mutation: the total is divided by the number of classes, not their credits.
calculate_gpa_unweighted(credits_list, grade_points_list) ==
    LET counted == SelectSeq(Zip(credits_list, grade_points_list), IsCounted)
        total_grade_points ==
            Sum([i \in 1..Len(counted) |-> FMul(counted[i][1], counted[i][2])])
        total_credits == Sum([i \in 1..Len(counted) |-> counted[i][1]])
    IN  IF total_credits = Zero THEN Zero
        ELSE FDiv(total_grade_points, FromInt(Len(counted)))

calculate_gpa(credits_list, grade_points_list) ==
    LET counted == SelectSeq(Zip(credits_list, grade_points_list), IsCounted)
        total_grade_points ==
            Sum([i \in 1..Len(counted) |-> FMul(counted[i][1], counted[i][2])])
        total_credits == Sum([i \in 1..Len(counted) |-> counted[i][1]])
    IN  IF total_credits = Zero THEN Zero
        ELSE FDiv(total_grade_points, total_credits)

\* ------------------------------------------------------------------------
\* calculate_cumulative_gpa

\* Mutation: only the current credits are tested for a negative value.
calculate_cumulative_gpa_one_test(current_gpa, current_credits, new_gpa, new_credits) ==
    IF FLt(current_credits, Zero)
    THEN Outcome(None, "error")
    ELSE LET combined_total_credits == FAdd(current_credits, new_credits)
             combined_total_grade_points ==
                 FAdd(FMul(current_gpa, current_credits), FMul(new_gpa, new_credits))
         IN  IF combined_total_credits = Zero THEN Outcome(Zero, "")
             ELSE Outcome(FDiv(combined_total_grade_points, combined_total_credits), "")

\* Mutation: the new GPA is weighted by the current credits.
calculate_cumulative_gpa_wrong_weight(current_gpa, current_credits, new_gpa, new_credits) ==
    IF FLt(current_credits, Zero) \/ FLt(new_credits, Zero)
    THEN Outcome(None, "error")
    ELSE LET combined_total_credits == FAdd(current_credits, new_credits)
             combined_total_grade_points ==
                 FAdd(FMul(current_gpa, current_credits), FMul(new_gpa, current_credits))
         IN  IF combined_total_credits = Zero THEN Outcome(Zero, "")
             ELSE Outcome(FDiv(combined_total_grade_points, combined_total_credits), "")

calculate_cumulative_gpa(current_gpa, current_credits, new_gpa, new_credits) ==
    IF FLt(current_credits, Zero) \/ FLt(new_credits, Zero)
    THEN Outcome(None, "error")
    ELSE LET current_total_grade_points == FMul(current_gpa, current_credits)
             new_total_grade_points == FMul(new_gpa, new_credits)
             combined_total_credits == FAdd(current_credits, new_credits)
             combined_total_grade_points ==
                 FAdd(current_total_grade_points, new_total_grade_points)
         IN  IF combined_total_credits = Zero THEN Outcome(Zero, "")
             ELSE Outcome(FDiv(combined_total_grade_points, combined_total_credits), "")

\* ------------------------------------------------------------------------
\* Tab "What If Scenario": one run of the script with the button pressed.
\* current_credits and next_semester_credits are Python ints; the lists hold
\* the credits and GPA of the classes with a known grade, empty when those
\* inputs are not shown.

KnowsSome == "I know some of my grades"

KnowsNone == "I haven't gotten any grades yet"

known_credits(next_semester_credits, scenario_type, known_credits_list) ==
    IF scenario_type = KnowsSome /\ next_semester_credits > 0
    THEN Sum(known_credits_list)
    ELSE Zero

known_grade_points(next_semester_credits, scenario_type, known_credits_list, known_gpa_list) ==
    IF scenario_type = KnowsSome /\ next_semester_credits > 0
    THEN LET z == Zip(known_credits_list, known_gpa_list)
         IN  Sum([i \in 1..Len(z) |-> FMul(z[i][1], z[i][2])])
    ELSE Zero

remaining_credits(next_semester_credits, scenario_type, known_credits_list) ==
    IF scenario_type = KnowsSome /\ next_semester_credits > 0
    THEN FSub(FromInt(next_semester_credits),
              known_credits(next_semester_credits, scenario_type, known_credits_list))
    ELSE FromInt(next_semester_credits)

\* "Known credits exceed total next semester credits.", shown under the
\* inputs of the known classes whether or not the button is pressed.
known_credits_exceed(next_semester_credits, scenario_type, known_credits_list) ==
    /\ scenario_type = KnowsSome /\ next_semester_credits > 0
    /\ FLt(remaining_credits(next_semester_credits, scenario_type, known_credits_list), Zero)

\* The message that reports required_gpa_remaining.
ResultMessage(required_gpa_remaining) ==
    IF FLt(FromDecimal(40, 10), required_gpa_remaining) THEN "error"
    ELSE IF FLt(required_gpa_remaining, Zero) THEN "info"
    ELSE "success"

Clamped(x) ==
    IF FLt(FromDecimal(40, 10), x) THEN FromDecimal(40, 10)
    ELSE IF FLt(x, Zero) THEN Zero
    ELSE x

\* Mutation: the required GPA is clamped to the range of a GPA.
required_gpa_remaining_clamped(current_gpa, current_credits, desired_gpa, next_semester_credits, scenario_type, known_credits_list, known_gpa_list) ==
    LET remaining == remaining_credits(next_semester_credits, scenario_type,
                                       known_credits_list)
        needed == FSub(FMul(desired_gpa, FromInt(current_credits + next_semester_credits)),
                       FMul(current_gpa, FromInt(current_credits)))
    IN  IF scenario_type = KnowsSome
        THEN IF FLt(Zero, remaining)
             THEN Clamped(FDiv(FSub(needed,
                      known_grade_points(next_semester_credits, scenario_type,
                                         known_credits_list, known_gpa_list)),
                      remaining))
             ELSE Zero
        ELSE IF next_semester_credits > 0
             THEN Clamped(FDiv(needed, FromInt(next_semester_credits)))
             ELSE Zero

required_gpa_remaining(current_gpa, current_credits, desired_gpa, next_semester_credits, scenario_type, known_credits_list, known_gpa_list) ==
    LET remaining == remaining_credits(next_semester_credits, scenario_type,
                                       known_credits_list)
        total_credits_after_next == current_credits + next_semester_credits
        desired_total_grade_points ==
            FMul(desired_gpa, FromInt(total_credits_after_next))
        current_total_grade_points == FMul(current_gpa, FromInt(current_credits))
    IN  IF scenario_type = KnowsSome
        THEN LET grade_points_needed_remaining ==
                     FSub(FSub(desired_total_grade_points, current_total_grade_points),
                          known_grade_points(next_semester_credits, scenario_type,
                                             known_credits_list, known_gpa_list))
             IN  IF FLt(Zero, remaining)
                 THEN FDiv(grade_points_needed_remaining, remaining)
                 ELSE Zero
        ELSE LET grade_points_needed_next_semester ==
                     FSub(desired_total_grade_points, current_total_grade_points)
             IN  IF next_semester_credits > 0
                 THEN FDiv(grade_points_needed_next_semester,
                           FromInt(next_semester_credits))
                 ELSE Zero

\* Mutation: no test for a semester without credits.
what_if_no_credit_test(current_gpa, current_credits, desired_gpa, next_semester_credits, scenario_type, known_credits_list, known_gpa_list) ==
    IF current_credits + next_semester_credits = 0
    THEN Outcome(None, "error")
    ELSE IF /\ scenario_type = KnowsSome
            /\ FLt(remaining_credits(next_semester_credits, scenario_type,
                                     known_credits_list), Zero)
    THEN Outcome(None, "error")
    ELSE LET required == required_gpa_remaining(current_gpa, current_credits,
                             desired_gpa, next_semester_credits, scenario_type,
                             known_credits_list, known_gpa_list)
         IN  Outcome(required, ResultMessage(required))

\* Mutation: the first two tests in the other order.
what_if_tests_swapped(current_gpa, current_credits, desired_gpa, next_semester_credits, scenario_type, known_credits_list, known_gpa_list) ==
    IF next_semester_credits = 0
    THEN Outcome(None, "warning")
    ELSE IF current_credits + next_semester_credits = 0
    THEN Outcome(None, "error")
    ELSE IF /\ scenario_type = KnowsSome
            /\ FLt(remaining_credits(next_semester_credits, scenario_type,
                                     known_credits_list), Zero)
    THEN Outcome(None, "error")
    ELSE LET required == required_gpa_remaining(current_gpa, current_credits,
                             desired_gpa, next_semester_credits, scenario_type,
                             known_credits_list, known_gpa_list)
         IN  Outcome(required, ResultMessage(required))

\* Mutation: no test for known credits above the semester's credits.
what_if_no_excess_test(current_gpa, current_credits, desired_gpa, next_semester_credits, scenario_type, known_credits_list, known_gpa_list) ==
    IF current_credits + next_semester_credits = 0
    THEN Outcome(None, "error")
    ELSE IF next_semester_credits = 0
    THEN Outcome(None, "warning")
    ELSE LET required == required_gpa_remaining(current_gpa, current_credits,
                             desired_gpa, next_semester_credits, scenario_type,
                             known_credits_list, known_gpa_list)
         IN  Outcome(required, ResultMessage(required))

what_if(current_gpa, current_credits, desired_gpa, next_semester_credits, scenario_type, known_credits_list, known_gpa_list) ==
    IF current_credits + next_semester_credits = 0
    THEN Outcome(None, "error")
    ELSE IF next_semester_credits = 0
    THEN Outcome(None, "warning")
    ELSE IF /\ scenario_type = KnowsSome
            /\ FLt(remaining_credits(next_semester_credits, scenario_type,
                                     known_credits_list), Zero)
    THEN Outcome(None, "error")
    ELSE LET required == required_gpa_remaining(current_gpa, current_credits,
                             desired_gpa, next_semester_credits, scenario_type,
                             known_credits_list, known_gpa_list)
         IN  Outcome(required, ResultMessage(required))

\* ------------------------------------------------------------------------
\* Inputs

\* Grade symbols handed to get_grade_point: the table's keys and others.
GradeInputs == DOMAIN grade_map \cup {"E", "a", "pass", ""}

\* Grade points handed to calculate_gpa: values of the table, None included.
PointInputs == {get_grade_point(g) : g \in {"A", "A-", "C-", "Pass"}}

\* Credit hours of a class handed to calculate_gpa, in halves.
ClassCreditInputs == {FromDecimal(h, 2) : h \in {0, 3, 6}}

\* GPA values (number_input with step 0.01), in hundredths.
GpaInputs == {FromDecimal(h, 100) : h \in {0, 300, 350, 370, 400}}

\* Credit totals handed to calculate_cumulative_gpa.
TotalCreditInputs == {FromInt(i) : i \in {-5, 0, 10, 15, 60}}

\* Inputs of the What If tab.
CurrentGpaInputs == {FromDecimal(h, 100) : h \in {300, 370}}

DesiredGpaInputs == {FromDecimal(h, 100) : h \in {200, 320, 350}}

CurrentCreditInputs == {0, 60}

NextCreditInputs == {0, 3, 15}

KnownCreditInputs == {FromDecimal(h, 2) : h \in {0, 6, 12, 18}}

KnownGpaInputs == {FromDecimal(h, 100) : h \in {300, 380}}

SeqsUpTo(S, n) == UNION {[1..k -> S] : k \in 0..n}

\* The classes with a known grade: "How many classes" is between 1 and
\* next_semester_credits when it is shown, and each class has both inputs.
KnownClassLists(next_semester_credits, scenario_type) ==
    IF scenario_type = KnowsSome /\ next_semester_credits > 0
    THEN UNION {[1..k -> KnownCreditInputs] \X [1..k -> KnownGpaInputs] :
                    k \in 1..Min2(next_semester_credits, MaxKnown)}
    ELSE {<<<<>>, <<>>>>}

\* ------------------------------------------------------------------------
\* The machine.  The program keeps nothing between two calculations, so a
\* behaviour is one call: op names it, args are its arguments, ret is what
\* it left behind, input_error whether an error was shown under the inputs.

Init ==
    /\ op = "start"
    /\ args = <<>>
    /\ ret = Outcome(None, "")
    /\ input_error = FALSE

GetGradePoint ==
    /\ op = "start"
    /\ \E grade \in GradeInputs :
        /\ op' = "get_grade_point"
        /\ args' = <<grade>>
        /\ ret' = Outcome(get_grade_point(grade), "")
        /\ UNCHANGED input_error

CalculateGpa ==
    /\ op = "start"
    /\ \E credits_list \in SeqsUpTo(ClassCreditInputs, MaxLen),
          grade_points_list \in SeqsUpTo(PointInputs, MaxLen) :
        /\ op' = "calculate_gpa"
        /\ args' = <<credits_list, grade_points_list>>
        /\ ret' = Outcome(calculate_gpa(credits_list, grade_points_list), "")
        /\ UNCHANGED input_error

CalculateCumulativeGpa ==
    /\ op = "start"
    /\ \E current_gpa \in GpaInputs, current_credits \in TotalCreditInputs,
          new_gpa \in GpaInputs, new_credits \in TotalCreditInputs :
        /\ op' = "calculate_cumulative_gpa"
        /\ args' = <<current_gpa, current_credits, new_gpa, new_credits>>
        /\ ret' = calculate_cumulative_gpa(current_gpa, current_credits,
                                           new_gpa, new_credits)
        /\ UNCHANGED input_error

WhatIf ==
    /\ op = "start"
    /\ \E current_gpa \in CurrentGpaInputs, current_credits \in CurrentCreditInputs,
          desired_gpa \in DesiredGpaInputs, next_semester_credits \in NextCreditInputs,
          scenario_type \in {KnowsNone, KnowsSome} :
        \E known \in KnownClassLists(next_semester_credits, scenario_type) :
            /\ op' = "what_if"
            /\ args' = <<current_gpa, current_credits, desired_gpa,
                         next_semester_credits, scenario_type, known[1], known[2]>>
            /\ input_error' = known_credits_exceed(next_semester_credits,
                                                   scenario_type, known[1])
            /\ ret' = what_if(current_gpa, current_credits, desired_gpa,
                              next_semester_credits, scenario_type, known[1], known[2])

Next ==
    \/ GetGradePoint
    \/ CalculateGpa
    \/ CalculateCumulativeGpa
    \/ WhatIf

Spec == Init /\ [][Next]_vars
\* ------------------------------------------------------------------------
\* Properties

IsNegative(a) == a[1] < 0

FLe(a, b) == LET e == CommonExp(a, b) IN Aligned(a, e) <= Aligned(b, e)

IsPositive(a) == a[1] > 0

\* The expected totals of calculate_gpa over the first n classes, written
\* class by class: an excluded class adds nothing to either.
RECURSIVE PointsTotal(_, _, _)
PointsTotal(credits, points, n) ==
    IF n = 0 THEN Zero
    ELSE IF points[n] = None THEN PointsTotal(credits, points, n - 1)
    ELSE FAdd(PointsTotal(credits, points, n - 1), FMul(credits[n], points[n]))

RECURSIVE CreditsTotal(_, _, _)
CreditsTotal(credits, points, n) ==
    IF n = 0 THEN Zero
    ELSE IF points[n] = None THEN CreditsTotal(credits, points, n - 1)
    ELSE FAdd(CreditsTotal(credits, points, n - 1), credits[n])

\* C1: calculate_cumulative_gpa with a negative current or new credit total
\* ends in an error and returns no GPA, whatever the two GPAs are.
C1_NegativeCreditsFail ==
    (op = "calculate_cumulative_gpa" /\ (IsNegative(args[2]) \/ IsNegative(args[4])))
        => (ret.val = None /\ ret.st = "error")

C1_Witness ==
    /\ op = "calculate_cumulative_gpa"
    /\ args = <<FromDecimal(30, 10), FromInt(-5), FromDecimal(35, 10), FromInt(10)>>
    /\ ret.val = None

\* C2: for non-negative credit totals calculate_cumulative_gpa returns 0.0
\* when they add up to zero and otherwise
\* (current_gpa*current_credits + new_gpa*new_credits) / (current_credits + new_credits);
\* for (3.0, 60, 4.0, 15) that is 3.2.
C2_CombinedGpa ==
    (op = "calculate_cumulative_gpa" /\ ~IsNegative(args[2]) /\ ~IsNegative(args[4]))
        => /\ ret.st = ""
           /\ (args[2] = Zero /\ args[4] = Zero) => ret.val = Zero
           /\ ~(args[2] = Zero /\ args[4] = Zero) =>
                  ret.val = FDiv(FAdd(FMul(args[1], args[2]), FMul(args[3], args[4])),
                                 FAdd(args[2], args[4]))
           /\ args = <<FromInt(3), FromInt(60), FromInt(4), FromInt(15)>> =>
                  ret.val = FromDecimal(32, 10)

C2_Witness ==
    /\ op = "calculate_cumulative_gpa"
    /\ args = <<FromInt(3), FromInt(60), FromInt(4), FromInt(15)>>
    /\ ret.val = FromDecimal(32, 10)

\* C3: calculate_gpa given lists of different lengths fails and returns no GPA.
C3_MismatchedLengthsFail ==
    (op = "calculate_gpa" /\ Len(args[1]) # Len(args[2])) => ret.val = None

\* C4: for lists of equal length calculate_gpa pairs credits and points by
\* position, leaves every excluded pair out of both totals, and returns the
\* points total over the credits total, or 0.0 when the credits total is zero.
C4_AggregateGpa ==
    (op = "calculate_gpa" /\ Len(args[1]) = Len(args[2]))
        => LET n == Len(args[1])
               numerator == PointsTotal(args[1], args[2], n)
               denominator == CreditsTotal(args[1], args[2], n)
           IN  /\ denominator = Zero => ret.val = Zero
               /\ denominator # Zero => ret.val = FDiv(numerator, denominator)

C4_Witness ==
    /\ op = "calculate_gpa"
    /\ Len(args[1]) = 3 /\ Len(args[2]) = 3
    /\ args[2][2] = None /\ args[2][1] # None /\ args[2][3] # None
    /\ args[2][1] # args[2][3]
    /\ \A i \in 1..3 : IsPositive(args[1][i])
    /\ args[1][1] # args[1][3]
    /\ IsPositive(ret.val)

\* The smallest and the largest of a non-empty list of floats.
RECURSIVE MinPoint(_, _)
MinPoint(points, n) ==
    IF n = 1 THEN points[1]
    ELSE LET m == MinPoint(points, n - 1) IN IF FLt(points[n], m) THEN points[n] ELSE m

RECURSIVE MaxPoint(_, _)
MaxPoint(points, n) ==
    IF n = 1 THEN points[1]
    ELSE LET m == MaxPoint(points, n - 1) IN IF FLt(m, points[n]) THEN points[n] ELSE m

NoneExcluded(points) == \A i \in 1..Len(points) : points[i] # None

\* a <= b * (1 + k * 2^-Precision) for floats a, b >= 0.
LeWithin(a, b, k) ==
    LET e == CommonExp(a, b)
    IN  Aligned(a, e) * 2^Precision <= Aligned(b, e) * (2^Precision + k)

\* a >= b * (1 - k * 2^-Precision) for floats a, b >= 0.
GeWithin(a, b, k) ==
    LET e == CommonExp(a, b)
    IN  Aligned(a, e) * 2^Precision >= Aligned(b, e) * (2^Precision - k)

\* C5 as stated: for non-empty lists of equal length, credits non-negative
\* and no class excluded, calculate_gpa returns a value in
\* [min(points), max(points)].
C5_Original ==
    (/\ op = "calculate_gpa"
     /\ Len(args[1]) = Len(args[2]) /\ Len(args[1]) > 0
     /\ NoneExcluded(args[2]))
        => /\ FLe(MinPoint(args[2], Len(args[2])), ret.val)
           /\ FLe(ret.val, MaxPoint(args[2], Len(args[2])))

\* C5 amended: when moreover the credits add up to more than zero, the value
\* returned lies in [min(points), max(points)] up to the rounding of the
\* float operations: within a relative 2(n+1) * 2^-Precision of the interval
\* for n classes.  (With a credits total of zero the value is 0.0.)
C5_WithinRounding ==
    (/\ op = "calculate_gpa"
     /\ Len(args[1]) = Len(args[2]) /\ Len(args[1]) > 0
     /\ NoneExcluded(args[2])
     /\ \E i \in 1..Len(args[1]) : IsPositive(args[1][i]))
        => LET n == Len(args[2])
           IN  /\ GeWithin(ret.val, MinPoint(args[2], n), 2 * (n + 1))
               /\ LeWithin(ret.val, MaxPoint(args[2], n), 2 * (n + 1))

\* Positive credits, nothing excluded, and rounding has carried the value
\* just outside the interval.
C5_Witness ==
    /\ op = "calculate_gpa"
    /\ Len(args[1]) = Len(args[2]) /\ Len(args[1]) > 0
    /\ NoneExcluded(args[2])
    /\ \A i \in 1..Len(args[1]) : IsPositive(args[1][i])
    /\ \/ FLt(MaxPoint(args[2], Len(args[2])), ret.val)
       \/ FLt(ret.val, MinPoint(args[2], Len(args[2])))

\* C10: get_grade_point returns the table's value for each of its symbols,
\* None and no number for "Pass", and 0.0 for any other symbol; every number
\* it returns lies between 0.0 and 4.0.
TenthsOf(grade) ==
    CASE grade \in {"A+", "A"} -> 40
      [] grade = "A-" -> 37
      [] grade = "B+" -> 33
      [] grade = "B" -> 30
      [] grade = "B-" -> 27
      [] grade = "C+" -> 23
      [] grade = "C" -> 20
      [] grade = "C-" -> 17
      [] grade = "D+" -> 13
      [] grade = "D" -> 10
      [] grade = "D-" -> 7
      [] OTHER -> 0

C10_GradePoints ==
    op = "get_grade_point"
        => /\ ret.st = ""
           /\ args[1] = "Pass" => ret.val = None
           /\ args[1] # "Pass" =>
                  /\ ret.val = FromDecimal(TenthsOf(args[1]), 10)
                  /\ FLe(Zero, ret.val) /\ FLe(ret.val, FromInt(4))

C10_Witness ==
    /\ op = "get_grade_point"
    /\ args[1] = "E"
    /\ ret.val = Zero

\* The What If inputs by the names the contract gives them.
currentGPA == args[1]

currentCredits == args[2]

desiredGPA == args[3]

futureCredits == args[4]

KnownMode == args[5] = KnowsSome

\* Credits and grade points of the classes with a known grade, class by class.
knownCredits == CreditsTotal(args[6], args[7], Len(args[6]))

knownGradePoints == PointsTotal(args[6], args[7], Len(args[6]))

remainingCredits == FSub(FromInt(futureCredits), knownCredits)

\* desiredGPA * (currentCredits + futureCredits) - currentGPA * currentCredits
PointsStillNeeded ==
    FSub(FMul(desiredGPA, FromInt(currentCredits + futureCredits)),
         FMul(currentGPA, FromInt(currentCredits)))

\* C6: with a positive denominator the required GPA is the value of its
\* mode's formula, also above 4.0 and below 0.0; for (3.0, 60, 3.5, 15)
\* without known grades it is 5.5.
C6_RequiredGpaFormula ==
    (op = "what_if" /\ futureCredits > 0)
        => /\ ~KnownMode => ret.val = FDiv(PointsStillNeeded, FromInt(futureCredits))
           /\ (KnownMode /\ IsPositive(remainingCredits)) =>
                  ret.val = FDiv(FSub(PointsStillNeeded, knownGradePoints),
                                 remainingCredits)
           /\ (/\ ~KnownMode
               /\ args[1] = FromInt(3) /\ args[2] = 60
               /\ args[3] = FromDecimal(35, 10) /\ args[4] = 15) =>
                  ret.val = FromDecimal(55, 10)

\* The example of the contract: a required GPA of 5.5, above 4.0.
C6_Witness ==
    /\ op = "what_if"
    /\ ~KnownMode
    /\ args[1] = FromInt(3) /\ args[2] = 60
    /\ args[3] = FromDecimal(35, 10) /\ args[4] = 15
    /\ ret.val = FromDecimal(55, 10)
    /\ FLt(FromInt(4), ret.val)

C8_ZeroTotalFails ==
    (op = "what_if" /\ currentCredits + futureCredits = 0)
        => (ret.val = None /\ ret.st = "error")

C8_Witness ==
    /\ op = "what_if"
    /\ KnownMode
    /\ currentCredits = 0 /\ futureCredits = 0
    /\ ret.val = None /\ ret.st = "error"

\* C9: with known grades and knownCredits > futureCredits the calculation
\* fails and gives no required GPA; a required GPA is computed in this mode
\* only with remainingCredits >= 0.
C9_ExcessKnownCreditsFail ==
    (op = "what_if" /\ KnownMode)
        => /\ IsNegative(remainingCredits) =>
                  (ret.val = None /\ ret.st = "error" /\ input_error)
           /\ ret.val # None => ~IsNegative(remainingCredits)

C9_Witness ==
    /\ op = "what_if"
    /\ KnownMode /\ currentCredits = 60 /\ futureCredits = 15
    /\ IsNegative(remainingCredits)
    /\ ret.val = None /\ ret.st = "error"
====
